---- MODULE Spec2Model ----
(***************************************************************************)
(* A model of the task tracker's core: the Task entity                     *)
(* (src/src/models/Task.js) and the StorageManager persistence adapter     *)
(* (src/src/utils/StorageManager.js) over a synchronous key-value store.   *)
(*                                                                         *)
(* Strings are sequences of one-character strings, so that trim,           *)
(* startsWith, key concatenation, JSON text and ISO timestamps are         *)
(* computed character by character as the runtime computes them.           *)
(***************************************************************************)
EXTENDS Integers, Sequences, FiniteSets, TLC

VARIABLES
    now,      \* the latest wall-clock reading (ms since the epoch)
    task,     \* the Task object the application holds (NoTask before any)
    trusted,  \* TRUE while `task` descends from the constructor only
    op,       \* name of the last Task operation called
    repeated, \* TRUE when markComplete / markIncomplete was called twice in a row
    args,     \* the title / priority arguments of that call
    err,      \* what the call raised: "none", "Error", "TypeError", "RangeError"
    created,  \* the Tasks a construction loop has collected so far
    store,    \* localStorage: a function from the keys present to their text
    mgr,      \* the StorageManager instances: storageKey and isAvailable
    last      \* the last StorageManager call: operation, arguments, outcome

taskVars == <<now, task, trusted, op, repeated, args, err>>
loopVars == <<created>>
storageVars == <<store, mgr, last>>
vars == <<now, task, trusted, op, repeated, args, err, created, store, mgr, last>>

----------------------------------------------------------------------------
(* Bounds of the model. *)

\* The clock is sampled at instants 0..MaxTick (see Instants).
MaxTick == 2
\* Tasks a construction loop creates.
MaxCreated == 3
\* Items the store holds before setItem raises QuotaExceededError.
MaxItems == 2

----------------------------------------------------------------------------
(* JavaScript values.  Every value is a record of one shape: k is the      *)
(* type tag, s the characters (of a string, of a number's decimal          *)
(* notation, of a property's name), a the elements (of an array), the      *)
(* properties (of an object) or the value (of a property).                 *)

JS(k, s, a) == [k |-> k, s |-> s, a |-> a]
Undefined == JS("undefined", <<>>, <<>>)
Null == JS("null", <<>>, <<>>)
True == JS("boolean", <<"t">>, <<>>)
False == JS("boolean", <<"f">>, <<>>)
Str(chars) == JS("string", chars, <<>>)
NaN == JS("number", <<"N", "a", "N">>, <<>>)
Arr(items) == JS("array", <<>>, items)
Prop(name, v) == JS("property", name, <<v>>)
Obj(props) == JS("object", <<>>, props)
\* An object that refers to itself: JSON.stringify raises TypeError on it.
Circular == JS("circular", <<>>, <<>>)

Min(a, b) == IF a <= b THEN a ELSE b

Digits == <<"0", "1", "2", "3", "4", "5", "6", "7", "8", "9">>
IsDigit(c) == \E i \in 1..Len(Digits) : Digits[i] = c
DigitValue(c) == (CHOOSE i \in 1..Len(Digits) : Digits[i] = c) - 1

\* Number.prototype.toString for a non-negative integer.
RECURSIVE Decimal(_)
Decimal(n) ==
    IF n < Len(Digits) THEN <<Digits[n + 1]>>
    ELSE Decimal(n \div Len(Digits)) \o <<Digits[(n % Len(Digits)) + 1]>>

\* The value of a run of decimal digits.
RECURSIVE DecimalValue(_)
DecimalValue(chars) ==
    IF chars = <<>> THEN 0
    ELSE DecimalValue(SubSeq(chars, 1, Len(chars) - 1)) * Len(Digits)
            + DigitValue(chars[Len(chars)])

AllDigits(chars) == \A i \in 1..Len(chars) : IsDigit(chars[i])

Num(n) == JS("number", Decimal(n), <<>>)

\* ToBoolean: the values `!v` and `v ? :` treat as false.
Falsy(v) ==
    \/ v.k \in {"undefined", "null"}
    \/ v.k = "boolean" /\ v.s = <<"f">>
    \/ v.k = "string" /\ v.s = <<>>
    \/ v.k = "number" /\ v.s \in {<<"0">>, <<"N", "a", "N">>}

\* String.prototype.substr(start, length), start counted from 0.
Substr(chars, start, length) ==
    SubSeq(chars, start + 1, Min(Len(chars), start + length))

\* String.prototype.startsWith.
StartsWith(chars, prefix) ==
    /\ Len(prefix) <= Len(chars)
    /\ SubSeq(chars, 1, Len(prefix)) = prefix

Whitespace == {" ", "\t"}

RECURSIVE TrimStart(_)
TrimStart(chars) ==
    IF chars # <<>> /\ Head(chars) \in Whitespace THEN TrimStart(Tail(chars))
    ELSE chars

RECURSIVE TrimEnd(_)
TrimEnd(chars) ==
    IF chars # <<>> /\ chars[Len(chars)] \in Whitespace
    THEN TrimEnd(SubSeq(chars, 1, Len(chars) - 1))
    ELSE chars

\* String.prototype.trim.
Trim(chars) == TrimEnd(TrimStart(chars))

----------------------------------------------------------------------------
(* Dates.  A Date holds a time value in ms, or NaN (an Invalid Date).      *)

InvalidDate == -1
MsPerSec == 1000
SecPerMin == 60
MinPerHour == 60
HoursPerDay == 24
MsPerDay == HoursPerDay * MinPerHour * SecPerMin * MsPerSec

\* The clock readings the model samples, in ms: the first and the last
\* millisecond of each second (0, 999, 1000, 1999, ...).
Instants ==
    {(i \div 2) * MsPerSec + (i % 2) * (MsPerSec - 1) : i \in 0..MaxTick}

Pad2(n) == IF n < 10 THEN <<"0">> \o Decimal(n) ELSE Decimal(n)
Pad3(n) == IF n < 100 THEN <<"0">> \o Pad2(n) ELSE Decimal(n)

\* The date part of the ISO form for a time value within the epoch's first day.
EpochDay == <<"1", "9", "7", "0", "-", "0", "1", "-", "0", "1">>

\* Date.prototype.toISOString for a valid time value: YYYY-MM-DDTHH:mm:ss.sssZ.
ToISOStringMs(t) ==
    EpochDay \o <<"T">>
        \o Pad2((t \div (MinPerHour * SecPerMin * MsPerSec)) % HoursPerDay) \o <<":">>
        \o Pad2((t \div (SecPerMin * MsPerSec)) % MinPerHour) \o <<":">>
        \o Pad2((t \div MsPerSec) % SecPerMin) \o <<".">>
        \o Pad3(t % MsPerSec) \o <<"Z">>

\* Date.prototype.toISOString: RangeError on an Invalid Date.
ToISOString(t) ==
    IF t = InvalidDate \/ t >= MsPerDay THEN [err |-> "RangeError", s |-> <<>>]
    ELSE [err |-> "none", s |-> ToISOStringMs(t)]

IsoLen == Len(ToISOStringMs(0))

\* Date.parse of a string: the ISO form above, else NaN.
ParseISO(chars) ==
    IF /\ Len(chars) = IsoLen
       /\ SubSeq(chars, 1, 11) = EpochDay \o <<"T">>
       /\ AllDigits(SubSeq(chars, 12, 13)) /\ chars[14] = ":"
       /\ AllDigits(SubSeq(chars, 15, 16)) /\ chars[17] = ":"
       /\ AllDigits(SubSeq(chars, 18, 19)) /\ chars[20] = "."
       /\ AllDigits(SubSeq(chars, 21, 23)) /\ chars[24] = "Z"
       /\ DecimalValue(SubSeq(chars, 12, 13)) < HoursPerDay
       /\ DecimalValue(SubSeq(chars, 15, 16)) < MinPerHour
       /\ DecimalValue(SubSeq(chars, 18, 19)) < SecPerMin
    THEN ((DecimalValue(SubSeq(chars, 12, 13)) * MinPerHour
            + DecimalValue(SubSeq(chars, 15, 16))) * SecPerMin
            + DecimalValue(SubSeq(chars, 18, 19))) * MsPerSec
            + DecimalValue(SubSeq(chars, 21, 23))
    ELSE InvalidDate

\* new Date(v): a string is parsed, a number is the time value, null is 0,
\* undefined is NaN.
NewDate(v) ==
    CASE v.k = "string" -> ParseISO(v.s)
      [] v.k = "number" /\ AllDigits(v.s) -> DecimalValue(v.s)
      [] v.k = "null" -> 0
      [] v.k = "boolean" -> IF v = True THEN 1 ELSE 0
      [] OTHER -> InvalidDate

----------------------------------------------------------------------------
(* The Task entity: src/src/models/Task.js.                                *)

Low == <<"l", "o", "w">>
Medium == <<"m", "e", "d", "i", "u", "m">>
High == <<"h", "i", "g", "h">>
Urgent == <<"u", "r", "g", "e", "n", "t">>

IdName == <<"i", "d">>
TitleName == <<"t", "i", "t", "l", "e">>
DescriptionName == <<"d", "e", "s", "c", "r", "i", "p", "t", "i", "o", "n">>
PriorityName == <<"p", "r", "i", "o", "r", "i", "t", "y">>
CompletedName == <<"c", "o", "m", "p", "l", "e", "t", "e", "d">>
CreatedAtName == <<"c", "r", "e", "a", "t", "e", "d", "A", "t">>
UpdatedAtName == <<"u", "p", "d", "a", "t", "e", "d", "A", "t">>

\* The fields of a Task object.  title, description and priority always hold
\* strings; _id and _completed hold whatever fromJSON copied into them.
MkTask(id, title, description, priority, completed, createdAt, updatedAt) ==
    [id |-> id, title |-> title, description |-> description,
     priority |-> priority, completed |-> completed,
     createdAt |-> createdAt, updatedAt |-> updatedAt]

\* No Task object.
NoTask == MkTask(Undefined, <<>>, <<>>, <<>>, Undefined, InvalidDate, InvalidDate)

\* The outcome of a call that returns a Task or raises.
Raise(e) == [err |-> e, task |-> NoTask]
Return(t) == [err |-> "none", task |-> t]

\* obj.name: the property's value, undefined when the object has none.
Get(obj, name) ==
    IF \E i \in 1..Len(obj.a) : obj.a[i].s = name
    THEN obj.a[CHOOSE i \in 1..Len(obj.a) : obj.a[i].s = name].a[1]
    ELSE Undefined

\* The number of characters substr keeps of the random suffix.
SuffixLen == 9

\* Math.random().toString(36) for a draw given by its base-36 fraction
\* digits: "0" for the draw 0, "0." and the digits otherwise.
RandomToString36(draw) ==
    IF draw = <<>> THEN <<"0">> ELSE <<"0", ".">> \o draw

\* _generateId with the random suffix left out.
GenerateIdNoSuffix(t, draw) ==
    <<"t", "a", "s", "k", "_">> \o Decimal(t) \o <<"_">>

\* Task._generateId: 'task_' + Date.now() + '_' + Math.random().toString(36).substr(2, 9)
GenerateId(t, draw) ==
    <<"t", "a", "s", "k", "_">> \o Decimal(t) \o <<"_">>
        \o Substr(RandomToString36(draw), 2, SuffixLen)

\* _validatePriority accepting any string.
ValidatePriorityAnyString(priority) ==
    IF priority.k = "string" THEN "none" ELSE "Error"

\* Task._validatePriority: "none" when validPriorities.includes(priority),
\* else the Error it throws.
ValidatePriority(priority) ==
    IF priority.k = "string" /\ priority.s \in {Low, Medium, High}
    THEN "none" ELSE "Error"

\* `if (!title || title.trim() === '') throw new Error(...)`: what the check
\* raises.  A truthy value that is no string has no trim method: TypeError.
ValidateTitle(title) ==
    IF Falsy(title) THEN "Error"
    ELSE IF title.k # "string" THEN "TypeError"
    ELSE IF Trim(title.s) = <<>> THEN "Error"
    ELSE "none"

\* `description ? description.trim() : ''`: what it raises.
ValidateDescription(description) ==
    IF ~Falsy(description) /\ description.k # "string" THEN "TypeError" ELSE "none"

TrimOrEmpty(description) ==
    IF Falsy(description) THEN <<>> ELSE Trim(description.s)

\* The constructor's default parameter: priority = 'medium'.
DefaultPriority(priority) == IF priority = Undefined THEN Str(Medium) ELSE priority

\* The constructor reading the clock for updatedAt before createdAt.
NewTaskStampsSwapped(title, description, priority, draw, t1, t2, t3) ==
    IF ValidateTitle(title) # "none" THEN Raise(ValidateTitle(title))
    ELSE IF ValidateDescription(description) # "none"
    THEN Raise(ValidateDescription(description))
    ELSE IF ValidatePriority(DefaultPriority(priority)) # "none"
    THEN Raise(ValidatePriority(DefaultPriority(priority)))
    ELSE Return(MkTask(Str(GenerateId(t1, draw)), Trim(title.s),
                       TrimOrEmpty(description), DefaultPriority(priority).s,
                       False, t3, t2))

\* new Task(title, description, priority), its three clock readings t1 (in
\* _generateId), t2 (createdAt), t3 (updatedAt) and its random draw given.
NewTask(title, description, priority, draw, t1, t2, t3) ==
    IF ValidateTitle(title) # "none" THEN Raise(ValidateTitle(title))
    ELSE IF ValidateDescription(description) # "none"
    THEN Raise(ValidateDescription(description))
    ELSE IF ValidatePriority(DefaultPriority(priority)) # "none"
    THEN Raise(ValidatePriority(DefaultPriority(priority)))
    ELSE Return(MkTask(Str(GenerateId(t1, draw)), Trim(title.s),
                       TrimOrEmpty(description), DefaultPriority(priority).s,
                       False, t2, t3))

\* toISOString keeping whole seconds only.
ToISOStringNoMs(t) ==
    IF t = InvalidDate \/ t >= MsPerDay THEN [err |-> "RangeError", s |-> <<>>]
    ELSE [err |-> "none", s |-> ToISOStringMs((t \div MsPerSec) * MsPerSec)]

\* The timestamp text toJSON writes.
Timestamp(t) == ToISOString(t)

\* Task.toJSON: the plain record, or the RangeError toISOString raises.
ToJSON(t) ==
    IF Timestamp(t.createdAt).err # "none"
    THEN [err |-> Timestamp(t.createdAt).err, data |-> Undefined]
    ELSE IF Timestamp(t.updatedAt).err # "none"
    THEN [err |-> Timestamp(t.updatedAt).err, data |-> Undefined]
    ELSE [err |-> "none",
          data |-> Obj(<<Prop(IdName, t.id),
                         Prop(TitleName, Str(t.title)),
                         Prop(DescriptionName, Str(t.description)),
                         Prop(PriorityName, Str(t.priority)),
                         Prop(CompletedName, t.completed),
                         Prop(CreatedAtName, Str(Timestamp(t.createdAt).s)),
                         Prop(UpdatedAtName, Str(Timestamp(t.updatedAt).s))>>)]

\* Task.fromJSON: the constructor on the record's title, description and
\* priority, then the record's id, completed and timestamps copied over.
FromJSON(data, draw, t1, t2, t3) ==
    IF data.k \in {"undefined", "null"} THEN Raise("TypeError")
    ELSE LET r == NewTask(Get(data, TitleName), Get(data, DescriptionName),
                          Get(data, PriorityName), draw, t1, t2, t3)
         IN IF r.err # "none" THEN r
            ELSE Return([r.task EXCEPT
                            !.id = Get(data, IdName),
                            !.completed = Get(data, CompletedName),
                            !.createdAt = NewDate(Get(data, CreatedAtName)),
                            !.updatedAt = NewDate(Get(data, UpdatedAtName))])

----------------------------------------------------------------------------
(* The inputs the application passes to a Task.                            *)

TitleInputs ==
    {Undefined, Null, Str(<<>>), Str(<<" ", "\t">>), Str(<<" ", "a", " ">>),
     Str(<<"b", " ", "c">>)}
DescriptionInputs == {Undefined, Str(<<"\t", "d", " ">>), Num(5)}
PriorityInputs == {Undefined, Str(Low), Str(High), Str(Urgent)}
\* The (title, description, priority) triples the constructor is called with:
\* every title with the other two defaulted, and every description and every
\* priority with a valid title.
ConstructorInputs ==
    {<<title, Undefined, Undefined>> : title \in TitleInputs}
        \cup {<<Str(<<" ", "a", " ">>), description, Undefined>> :
                description \in DescriptionInputs}
        \cup {<<Str(<<" ", "a", " ">>), Undefined, priority>> :
                priority \in PriorityInputs}

\* Math.random() draws, as base-36 fraction digits: 0, two short fractions,
\* and two long ones that differ only past the ninth digit.
LongDraw == <<"z", "y", "x", "w", "v", "u", "t", "s", "r">>
RandomDraws ==
    {<<>>, <<"i">>, <<"4", "f">>, LongDraw \o <<"1">>, LongDraw \o <<"2">>}
\* The draws the single-Task lifecycle uses.
LifecycleDraws == {<<"4", "f">>}

\* Records handed to fromJSON that no toJSON call produced: stale or
\* corrupted storage.
Iso(t) == Str(ToISOStringMs(t))
Record(id, title, description, priority, completed, createdAt, updatedAt) ==
    Obj(<<Prop(IdName, id), Prop(TitleName, title),
          Prop(DescriptionName, description), Prop(PriorityName, priority),
          Prop(CompletedName, completed), Prop(CreatedAtName, createdAt),
          Prop(UpdatedAtName, updatedAt)>>)
ExternalRecords ==
    {Record(Str(<<"x">>), Str(<<" ", "a", " ">>), Str(<<"d">>), Str(Low), True,
            Iso(MsPerSec - 1), Iso(0)),
     Record(Str(<<"x">>), Str(<<"a">>), Str(<<>>), Str(Urgent), False,
            Iso(0), Iso(0)),
     Record(Str(<<"x">>), Str(<<" ">>), Str(<<>>), Str(High), False,
            Iso(0), Iso(0)),
     Record(Str(<<"x">>), Num(5), Str(<<>>), Str(High), False, Iso(0), Iso(0)),
     Obj(<<Prop(TitleName, Str(<<"a">>)),
           Prop(CreatedAtName, Str(<<"s", "o", "o", "n">>))>>),
     Null}

\* new Date() / Date.now(): a reading of the wall clock, which does not run
\* backwards.  Between two readings the clock stays or moves to the next
\* sampled instant.
ClockReadings(after) ==
    {t \in Instants : t >= after /\ ~\E u \in Instants : after < u /\ u < t}

\* What one constructor call reads: the draw of Math.random() and the clock
\* at Date.now() (t1), at createdAt (t2) and at updatedAt (t3).  The clock
\* moves on at most once while the call runs.
ConstructorReads(draws) ==
    UNION {UNION {{[draw |-> d, t1 |-> t1, t2 |-> t2, t3 |-> t3] :
                        d \in draws,
                        t3 \in {t \in ClockReadings(t2) : t \in ClockReadings(now)}} :
                  t2 \in ClockReadings(t1)} :
           t1 \in ClockReadings(now)}

\* The reads of a call that raises before it reads anything.
NoReads == [draw |-> <<>>, t1 |-> now, t2 |-> now, t3 |-> now]

NoArgs == [title |-> Undefined, priority |-> Undefined]

----------------------------------------------------------------------------
(* The Task operations, each one step.                                     *)

\* What a call leaves behind: the Task it returned (or the one held, when it
\* raised), the clock, and the call's record.
TaskStep(name, a, r, t, keepsTrust) ==
    /\ op' = name
    /\ repeated' = (op = name /\ name \in {"markComplete", "markIncomplete"})
    /\ args' = a
    /\ err' = r.err
    /\ task' = IF r.err = "none" THEN r.task ELSE task
    /\ trusted' = IF r.err = "none" THEN keepsTrust ELSE trusted
    /\ now' = IF r.err = "none" THEN t ELSE now
    /\ UNCHANGED <<created, store, mgr, last>>

\* task = new Task(title, description, priority)
Construct(title, description, priority) ==
    \E r \in IF NewTask(title, description, priority, <<>>, now, now, now).err = "none"
             THEN ConstructorReads(LifecycleDraws) ELSE {NoReads} :
        TaskStep("construct", [title |-> title, priority |-> priority],
                 NewTask(title, description, priority, r.draw, r.t1, r.t2, r.t3),
                 r.t3, TRUE)

\* markComplete flipping the flag instead of setting it.
MarkCompleteToggle ==
    /\ task # NoTask
    /\ \E t \in ClockReadings(now) :
        TaskStep("markComplete", NoArgs,
                 Return([task EXCEPT
                            !.completed = IF task.completed = True THEN False ELSE True,
                            !.updatedAt = t]),
                 t, trusted)

\* task.markComplete()
MarkComplete ==
    /\ task # NoTask
    /\ \E t \in ClockReadings(now) :
        TaskStep("markComplete", NoArgs,
                 Return([task EXCEPT !.completed = True, !.updatedAt = t]),
                 t, trusted)

\* task.markIncomplete()
MarkIncomplete ==
    /\ task # NoTask
    /\ \E t \in ClockReadings(now) :
        TaskStep("markIncomplete", NoArgs,
                 Return([task EXCEPT !.completed = False, !.updatedAt = t]),
                 t, trusted)

\* updateTitle refreshing updatedAt before it validates.
UpdateTitleStampFirst(newTitle) ==
    /\ task # NoTask
    /\ \E t \in ClockReadings(now) :
        /\ op' = "updateTitle"
        /\ repeated' = FALSE
        /\ args' = [title |-> newTitle, priority |-> Undefined]
        /\ err' = ValidateTitle(newTitle)
        /\ task' = IF ValidateTitle(newTitle) = "none"
                   THEN [task EXCEPT !.title = Trim(newTitle.s), !.updatedAt = t]
                   ELSE [task EXCEPT !.updatedAt = t]
        /\ now' = t
        /\ UNCHANGED <<trusted, created, store, mgr, last>>

\* task.updateTitle(newTitle)
UpdateTitle(newTitle) ==
    /\ task # NoTask
    /\ \E t \in ClockReadings(now) :
        TaskStep("updateTitle", [title |-> newTitle, priority |-> Undefined],
                 IF ValidateTitle(newTitle) # "none"
                 THEN Raise(ValidateTitle(newTitle))
                 ELSE Return([task EXCEPT !.title = Trim(newTitle.s),
                                          !.updatedAt = t]),
                 t, trusted)

\* task.updateDescription(newDescription)
UpdateDescription(newDescription) ==
    /\ task # NoTask
    /\ \E t \in ClockReadings(now) :
        TaskStep("updateDescription", NoArgs,
                 IF ValidateDescription(newDescription) # "none"
                 THEN Raise(ValidateDescription(newDescription))
                 ELSE Return([task EXCEPT
                                 !.description = TrimOrEmpty(newDescription),
                                 !.updatedAt = t]),
                 t, trusted)

\* task.updatePriority(newPriority)
UpdatePriority(newPriority) ==
    /\ task # NoTask
    /\ \E t \in ClockReadings(now) :
        TaskStep("updatePriority", [title |-> Undefined, priority |-> newPriority],
                 IF ValidatePriority(newPriority) # "none"
                 THEN Raise(ValidatePriority(newPriority))
                 ELSE Return([task EXCEPT !.priority = newPriority.s,
                                          !.updatedAt = t]),
                 t, trusted)

\* fromJSON of a record, under every clock reading and draw its constructor
\* call can make.
Reconstruct(name, data, keepsTrust) ==
    \E r \in IF FromJSON(data, <<>>, now, now, now).err = "none"
             THEN ConstructorReads(LifecycleDraws) ELSE {NoReads} :
        TaskStep(name,
                 [title |-> Get(data, TitleName), priority |-> Get(data, PriorityName)],
                 FromJSON(data, r.draw, r.t1, r.t2, r.t3), r.t3, keepsTrust)

\* task = Task.fromJSON(task.toJSON()): the Task saved and loaded back.
RoundTrip ==
    /\ task # NoTask
    /\ IF ToJSON(task).err # "none"
       THEN TaskStep("toJSON", NoArgs, Raise(ToJSON(task).err), now, trusted)
       ELSE Reconstruct("roundTrip", ToJSON(task).data, trusted)

\* task = Task.fromJSON(data) for a record from stale or corrupted storage.
FromJSONExternal(data) == Reconstruct("fromJSON", data, FALSE)

InitTask ==
    /\ now = 0
    /\ task = NoTask
    /\ trusted = TRUE
    /\ op = "none"
    /\ repeated = FALSE
    /\ args = NoArgs
    /\ err = "none"

----------------------------------------------------------------------------
(* A loop that constructs Tasks back to back and collects them.            *)

\* created.push(new Task(...)): the Task, with the clock reading and the
\* draw its id was generated from.
CreateInLoop ==
    /\ Len(created) < MaxCreated
    /\ \E c \in ConstructorReads(RandomDraws) :
        LET r == NewTask(Str(<<"a">>), Undefined, Undefined, c.draw, c.t1, c.t2, c.t3)
        IN /\ created' = Append(created, [task |-> r.task, tick |-> c.t1, draw |-> c.draw])
           /\ now' = c.t3
           /\ UNCHANGED <<task, trusted, op, repeated, args, err, store, mgr, last>>

\* The loop starts over with an empty collection.
RestartLoop ==
    /\ Len(created) = MaxCreated
    /\ created' = <<>>
    /\ UNCHANGED <<now, task, trusted, op, repeated, args, err, store, mgr, last>>

InitLoop == created = <<>>

----------------------------------------------------------------------------
(* JSON text, character by character.                                      *)

Quote == "\""
NullText == <<"n", "u", "l", "l">>
TrueText == <<"t", "r", "u", "e">>
FalseText == <<"f", "a", "l", "s", "e">>
UndefinedText == <<"u", "n", "d", "e", "f", "i", "n", "e", "d">>

\* What JSON.stringify gives: a text, the value undefined, or a TypeError.
Text(chars) == [r |-> "text", t |-> chars]
NoText == [r |-> "undefined", t |-> <<>>]
Throws == [r |-> "throw", t |-> <<>>]

RECURSIVE Stringify(_)
RECURSIVE StringifyElements(_, _)
RECURSIVE StringifyMembers(_, _)

\* The elements of an array from index i on, comma-separated; undefined
\* elements are written as null.
StringifyElements(items, i) ==
    IF i > Len(items) THEN Text(<<>>)
    ELSE LET head == Stringify(items[i])
             rest == StringifyElements(items, i + 1)
         IN IF head.r = "throw" \/ rest.r = "throw" THEN Throws
            ELSE Text((IF head.r = "undefined" THEN NullText ELSE head.t)
                      \o (IF i < Len(items) THEN <<",">> ELSE <<>>) \o rest.t)

\* The properties of an object from index i on; a property whose value is
\* undefined is left out.
StringifyMembers(props, i) ==
    IF i > Len(props) THEN Text(<<>>)
    ELSE LET head == Stringify(props[i].a[1])
             rest == StringifyMembers(props, i + 1)
         IN IF head.r = "throw" \/ rest.r = "throw" THEN Throws
            ELSE IF head.r = "undefined" THEN rest
            ELSE Text(<<Quote>> \o props[i].s \o <<Quote, ":">> \o head.t
                      \o (IF rest.t # <<>> THEN <<",">> ELSE <<>>) \o rest.t)

\* JSON.stringify(v).
Stringify(v) ==
    CASE v.k = "undefined" -> NoText
      [] v.k = "null" -> Text(NullText)
      [] v.k = "boolean" -> Text(IF v = True THEN TrueText ELSE FalseText)
      [] v.k = "number" -> Text(IF AllDigits(v.s) THEN v.s ELSE NullText)
      [] v.k = "string" -> Text(<<Quote>> \o v.s \o <<Quote>>)
      [] v.k = "array" ->
            LET inner == StringifyElements(v.a, 1)
            IN IF inner.r = "throw" THEN Throws
               ELSE Text(<<"[">> \o inner.t \o <<"]">>)
      [] v.k = "object" ->
            LET inner == StringifyMembers(v.a, 1)
            IN IF inner.r = "throw" THEN Throws
               ELSE Text(<<"{">> \o inner.t \o <<"}">>)
      [] OTHER -> Throws

\* The outcome of parsing a prefix of a text: the value and the text left.
Parsed(v, rest) == [ok |-> TRUE, v |-> v, rest |-> rest]
SyntaxError == [ok |-> FALSE, v |-> Undefined, rest |-> <<>>]

Drop(chars, n) == SubSeq(chars, n + 1, Len(chars))

\* The length of the longest run of digits a text starts with.
RECURSIVE DigitRun(_)
DigitRun(chars) ==
    IF chars # <<>> /\ IsDigit(Head(chars)) THEN 1 + DigitRun(Tail(chars)) ELSE 0

\* The index of the first quote in a text, 0 when it has none.
RECURSIVE QuoteAt(_, _)
QuoteAt(chars, i) ==
    IF i > Len(chars) THEN 0
    ELSE IF chars[i] = Quote THEN i
    ELSE QuoteAt(chars, i + 1)

RECURSIVE ParseValue(_)
RECURSIVE ParseElements(_, _)
RECURSIVE ParseMembers(_, _)

\* The elements after "[" or ",": value, then "," and more, or "]".
ParseElements(chars, acc) ==
    LET head == ParseValue(chars)
    IN IF ~head.ok \/ head.rest = <<>> THEN SyntaxError
       ELSE IF Head(head.rest) = "]"
       THEN Parsed(Arr(Append(acc, head.v)), Tail(head.rest))
       ELSE IF Head(head.rest) = ","
       THEN ParseElements(Tail(head.rest), Append(acc, head.v))
       ELSE SyntaxError

\* The members after "{" or ",": "name":value, then "," and more, or "}".
ParseMembers(chars, acc) ==
    LET name == ParseValue(chars)
    IN IF ~name.ok \/ name.v.k # "string" \/ name.rest = <<>>
            \/ Head(name.rest) # ":"
       THEN SyntaxError
       ELSE LET value == ParseValue(Tail(name.rest))
            IN IF ~value.ok \/ value.rest = <<>> THEN SyntaxError
               ELSE IF Head(value.rest) = "}"
               THEN Parsed(Obj(Append(acc, Prop(name.v.s, value.v))),
                           Tail(value.rest))
               ELSE IF Head(value.rest) = ","
               THEN ParseMembers(Tail(value.rest),
                                 Append(acc, Prop(name.v.s, value.v)))
               ELSE SyntaxError

\* One JSON value at the start of a text.
ParseValue(chars) ==
    IF chars = <<>> THEN SyntaxError
    ELSE IF StartsWith(chars, NullText) THEN Parsed(Null, Drop(chars, Len(NullText)))
    ELSE IF StartsWith(chars, TrueText) THEN Parsed(True, Drop(chars, Len(TrueText)))
    ELSE IF StartsWith(chars, FalseText)
    THEN Parsed(False, Drop(chars, Len(FalseText)))
    ELSE IF IsDigit(Head(chars))
    THEN IF Head(chars) = "0" /\ DigitRun(chars) > 1 THEN SyntaxError
         ELSE Parsed(JS("number", SubSeq(chars, 1, DigitRun(chars)), <<>>),
                     Drop(chars, DigitRun(chars)))
    ELSE IF Head(chars) = Quote
    THEN IF QuoteAt(chars, 2) = 0 THEN SyntaxError
         ELSE Parsed(Str(SubSeq(chars, 2, QuoteAt(chars, 2) - 1)),
                     Drop(chars, QuoteAt(chars, 2)))
    ELSE IF Head(chars) = "["
    THEN IF Len(chars) >= 2 /\ chars[2] = "]" THEN Parsed(Arr(<<>>), Drop(chars, 2))
         ELSE ParseElements(Tail(chars), <<>>)
    ELSE IF Head(chars) = "{"
    THEN IF Len(chars) >= 2 /\ chars[2] = "}" THEN Parsed(Obj(<<>>), Drop(chars, 2))
         ELSE ParseMembers(Tail(chars), <<>>)
    ELSE SyntaxError

\* JSON.parse(text): the whole text must be one value.
ParseJSON(chars) ==
    LET r == ParseValue(chars)
    IN IF r.ok /\ r.rest = <<>> THEN r ELSE SyntaxError

----------------------------------------------------------------------------
(* The underlying store: localStorage.                                     *)

\* The store with key set to text.
Put(st, key, text) ==
    [k \in DOMAIN st \cup {key} |-> IF k = key THEN text ELSE st[k]]

\* The store without the keys in `keys`.
Without(st, keys) == [k \in DOMAIN st \ keys |-> st[k]]

EmptyStore == Without(<<>>, {})

\* localStorage.setItem raises when the call is made to fail, and when a new
\* key would take the store past its quota.
SetItemThrows(st, key, fault) ==
    \/ fault # "none"
    \/ key \notin DOMAIN st /\ Cardinality(DOMAIN st) >= MaxItems

----------------------------------------------------------------------------
(* StorageManager: src/src/utils/StorageManager.js.                        *)

\* The key the constructor's probe writes and removes.
TestKey ==
    <<"_", "_", "s", "t", "o", "r", "a", "g", "e", "_", "t", "e", "s", "t", "_", "_">>
TestText == <<"t", "e", "s", "t">>

AvailableName == <<"a", "v", "a", "i", "l", "a", "b", "l", "e">>
TotalSizeName == <<"t", "o", "t", "a", "l", "S", "i", "z", "e">>
AppSizeName == <<"a", "p", "p", "S", "i", "z", "e">>
ItemCountName == <<"i", "t", "e", "m", "C", "o", "u", "n", "t">>
ErrorName == <<"e", "r", "r", "o", "r">>
\* The message of the error a failing store call raises.
ErrorMessage == Str(<<"s", "t", "o", "r", "e">>)

Manager(storageKey, isAvailable) ==
    [storageKey |-> storageKey, isAvailable |-> isAvailable, constructed |-> TRUE]
NoManager == [storageKey |-> <<>>, isAvailable |-> FALSE, constructed |-> FALSE]

\* The effective key, with the namespace prefix left out.
FullKeyNoPrefix(m, key) == key

\* `${this.storageKey}_${key}`
FullKey(m, key) == m.storageKey \o <<"_">> \o key

\* The outcome of a method body: the value it returns or the fact that it
\* threw, and the store it leaves.
Returned(v, st) == [threw |-> FALSE, res |-> v, store |-> st]
Threw(st) == [threw |-> TRUE, res |-> Undefined, store |-> st]

\* A body run without a try/catch around it.
Uncaught(body, fallback) == body

\* try { body } catch (error) { return fallback }
Catch(body, fallback) ==
    IF body.threw THEN Returned(fallback, body.store) ELSE body

\* The text setItem stores for what JSON.stringify returned: String(undefined)
\* for the value undefined.
StoredText(json) == IF json.r = "undefined" THEN UndefinedText ELSE json.t

\* save(key, data)
SaveBody(m, st, key, data, fault) ==
    IF ~m.isAvailable THEN Returned(False, st)
    ELSE Catch(IF Stringify(data).r = "throw" THEN Threw(st)
               ELSE IF SetItemThrows(st, FullKey(m, key), fault) THEN Threw(st)
               ELSE Returned(True, Put(st, FullKey(m, key),
                                       StoredText(Stringify(data)))),
               False)

\* load returning the default for a stored value that is falsy.
LoadBodyOrDefault(m, st, key, defaultValue, fault) ==
    IF ~m.isAvailable THEN Returned(defaultValue, st)
    ELSE Catch(IF fault # "none" THEN Threw(st)
               ELSE IF FullKey(m, key) \notin DOMAIN st
               THEN Returned(defaultValue, st)
               ELSE IF ~ParseJSON(st[FullKey(m, key)]).ok THEN Threw(st)
               ELSE IF Falsy(ParseJSON(st[FullKey(m, key)]).v)
               THEN Returned(defaultValue, st)
               ELSE Returned(ParseJSON(st[FullKey(m, key)]).v, st),
               defaultValue)

\* load(key, defaultValue)
LoadBody(m, st, key, defaultValue, fault) ==
    IF ~m.isAvailable THEN Returned(defaultValue, st)
    ELSE Catch(IF fault # "none" THEN Threw(st)
               ELSE IF FullKey(m, key) \notin DOMAIN st
               THEN Returned(defaultValue, st)
               ELSE IF ~ParseJSON(st[FullKey(m, key)]).ok THEN Threw(st)
               ELSE Returned(ParseJSON(st[FullKey(m, key)]).v, st),
               defaultValue)

\* remove(key)
RemoveBody(m, st, key, fault) ==
    IF ~m.isAvailable THEN Returned(False, st)
    ELSE Catch(IF fault # "none" THEN Threw(st)
               ELSE Returned(True, Without(st, {FullKey(m, key)})),
               False)

\* The keys clear() collects: `key && key.startsWith(this.storageKey)`.
KeysToRemove(m, st) ==
    {key \in DOMAIN st : key # <<>> /\ StartsWith(key, m.storageKey)}

\* clear(), `removed` being the keys deleted before a removeItem call raised
\* (all of them when none did).
ClearBody(m, st, fault, removed) ==
    IF ~m.isAvailable THEN Returned(False, st)
    ELSE Catch(IF fault = "key" THEN Threw(st)
               ELSE IF fault = "removeItem" THEN Threw(Without(st, removed))
               ELSE Returned(True, Without(st, KeysToRemove(m, st))),
               False)

\* The sum of key.length + value.length over the keys in `keys`.
RECURSIVE SizeOf(_, _)
SizeOf(st, keys) ==
    IF keys = {} THEN 0
    ELSE LET key == CHOOSE k \in keys : TRUE
         IN Len(key) + Len(st[key]) + SizeOf(st, keys \ {key})

\* getStorageInfo()
StorageInfoBody(m, st, fault) ==
    IF ~m.isAvailable THEN Returned(Obj(<<Prop(AvailableName, False)>>), st)
    ELSE Catch(IF fault # "none" THEN Threw(st)
               ELSE Returned(
                    Obj(<<Prop(AvailableName, True),
                          Prop(TotalSizeName, Num(SizeOf(st, DOMAIN st))),
                          Prop(AppSizeName,
                               Num(SizeOf(st, {key \in DOMAIN st :
                                                StartsWith(key, m.storageKey)}))),
                          Prop(ItemCountName, Num(Cardinality(DOMAIN st)))>>),
                    st),
               Obj(<<Prop(AvailableName, False), Prop(ErrorName, ErrorMessage)>>))

\* _checkStorageAvailability(): the probe writes the test key and removes it.
CheckStorageAvailability(st, fault) ==
    Catch(IF SetItemThrows(st, TestKey, fault) THEN Threw(st)
          ELSE Returned(True, Without(st, {TestKey})),
          False)

\* The record of a call: the operation, the instance it was called on, its
\* key and value (or default) arguments, the failure the store was made to
\* show during it, what it returned and whether it raised to the caller.
Call(name, who, key, arg, fault, body) ==
    [op |-> name, who |-> who, key |-> key, arg |-> arg, fault |-> fault,
     res |-> body.res, raised |-> body.threw]

NoCall == [op |-> "none", who |-> 0, key |-> <<>>, arg |-> Undefined,
           fault |-> "none", res |-> Undefined, raised |-> FALSE]

\* mgr[who] = new StorageManager(storageKey)
NewManager(who, storageKey, fault) ==
    LET body == CheckStorageAvailability(store, fault)
    IN /\ mgr' = [mgr EXCEPT ![who] = Manager(storageKey, body.res = True)]
       /\ store' = body.store
       /\ last' = Call("new", who, <<>>, Str(storageKey), fault, body)
       /\ UNCHANGED <<now, task, trusted, op, repeated, args, err, created>>

\* A method call on a constructed instance.
ManagerStep(name, who, key, arg, fault, body) ==
    /\ mgr[who].constructed
    /\ store' = body.store
    /\ last' = Call(name, who, key, arg, fault, body)
    /\ UNCHANGED <<mgr, now, task, trusted, op, repeated, args, err, created>>

\* mgr[who].save(key, data)
Save(who, key, data, fault) ==
    ManagerStep("save", who, key, data, fault,
                SaveBody(mgr[who], store, key, data, fault))

\* mgr[who].load(key, defaultValue)
Load(who, key, defaultValue, fault) ==
    ManagerStep("load", who, key, defaultValue, fault,
                LoadBody(mgr[who], store, key, defaultValue, fault))

\* mgr[who].remove(key)
Remove(who, key, fault) ==
    ManagerStep("remove", who, key, Undefined, fault,
                RemoveBody(mgr[who], store, key, fault))

\* mgr[who].clear(); when removeItem is made to fail, it fails at one of the
\* collected keys, after any of the others were removed.
Clear(who, fault) ==
    \E removed \in IF fault = "removeItem" /\ mgr[who].isAvailable
                   THEN {r \in SUBSET KeysToRemove(mgr[who], store) :
                            r # KeysToRemove(mgr[who], store)}
                   ELSE {{}} :
        ManagerStep("clear", who, <<>>, Undefined, fault,
                    ClearBody(mgr[who], store, fault, removed))

\* mgr[who].getStorageInfo()
GetStorageInfo(who, fault) ==
    ManagerStep("getStorageInfo", who, <<>>, Undefined, fault,
                StorageInfoBody(mgr[who], store, fault))

\* Another occupant of the store (or the page itself, not through the
\* adapter) sets a key.
ExternalSet(key, text) ==
    /\ ~SetItemThrows(store, key, "none")
    /\ store' = Put(store, key, text)
    /\ last' = [NoCall EXCEPT !.op = "external"]
    /\ UNCHANGED <<mgr, now, task, trusted, op, repeated, args, err, created>>

InitStorage ==
    /\ store = EmptyStore
    /\ mgr = [who \in {1, 2} |-> NoManager]
    /\ last = NoCall

\* The inputs of the single-adapter specification.
Prefixes == {<<>>, <<"a">>}
Keys == {<<"k">>}
Values ==
    {Undefined, Null, NaN, Num(1), Str(<<"a">>),
     Arr(<<Obj(<<Prop(TitleName, Str(<<"a">>))>>)>>), Circular}
Defaults == {Null, Str(<<"D">>)}
\* Keys and texts written to the store directly: the empty key, a key that
\* starts with a prefix without being namespaced, a foreign key, a
\* namespaced key holding text that is no JSON.
RawKeys == {<<>>, <<"a", "b">>, <<"b">>, <<"a", "_", "k">>}
RawTexts == {<<"1">>, <<"[">>}
Faults == {"none", "throws"}
ClearFaults == {"none", "key", "removeItem"}

\* The inputs of the two-adapter specification.
SharedPrefixes == {<<"a">>, <<"a", "_", "b">>, <<"b">>}
SharedKeys == {<<"k">>, <<"b", "_", "k">>}
SharedValues == {Num(1), Str(<<"a">>)}

----------------------------------------------------------------------------
(* Specifications.                                                         *)

Init == InitTask /\ InitLoop /\ InitStorage

\* The lifecycle of one Task.
Next ==
    \/ \E in \in ConstructorInputs : Construct(in[1], in[2], in[3])
    \/ MarkComplete
    \/ MarkIncomplete
    \/ \E newTitle \in TitleInputs : UpdateTitle(newTitle)
    \/ \E newDescription \in DescriptionInputs : UpdateDescription(newDescription)
    \/ \E newPriority \in PriorityInputs : UpdatePriority(newPriority)
    \/ RoundTrip
    \/ \E data \in ExternalRecords : FromJSONExternal(data)

Spec == Init /\ [][Next]_vars

\* Tasks constructed in a tight loop.
NextLoop == CreateInLoop \/ RestartLoop

SpecLoop == Init /\ [][NextLoop]_vars

\* One StorageManager over a store that other code writes too and whose
\* calls can fail.
NextStorage ==
    \/ \E storageKey \in Prefixes, fault \in Faults : NewManager(1, storageKey, fault)
    \/ \E key \in Keys, data \in Values, fault \in Faults : Save(1, key, data, fault)
    \/ \E key \in Keys, defaultValue \in Defaults, fault \in Faults :
            Load(1, key, defaultValue, fault)
    \/ \E key \in Keys, fault \in Faults : Remove(1, key, fault)
    \/ \E fault \in ClearFaults : Clear(1, fault)
    \/ \E fault \in Faults : GetStorageInfo(1, fault)
    \/ \E key \in RawKeys, text \in RawTexts : ExternalSet(key, text)

SpecStorage == Init /\ [][NextStorage]_vars

\* Two StorageManagers with different prefixes over one working store.
NextShared ==
    \/ \E who \in {1, 2}, storageKey \in SharedPrefixes :
            /\ \A other \in {1, 2} \ {who} : mgr[other].storageKey # storageKey
            /\ NewManager(who, storageKey, "none")
    \/ \E who \in {1, 2}, key \in SharedKeys, data \in SharedValues :
            Save(who, key, data, "none")
    \/ \E who \in {1, 2}, key \in SharedKeys : Load(who, key, Null, "none")
    \/ \E who \in {1, 2}, key \in SharedKeys : Remove(who, key, "none")
    \/ \E who \in {1, 2} : Clear(who, "none")

SpecShared == Init /\ [][NextShared]_vars

----------------------------------------------------------------------------
(* Properties of the Task entity.                                          *)

\* The titles the claims call invalid: undefined, null, empty, whitespace-only.
RejectedTitle(v) ==
    \/ v \in {Undefined, Null}
    \/ v.k = "string" /\ \A i \in 1..Len(v.s) : v.s[i] \in Whitespace

AllowedPriority(v) == v \in {Str(Low), Str(Medium), Str(High)}

\* a >= b on Dates: false when either is an Invalid Date.
DateGE(a, b) == a # InvalidDate /\ b # InvalidDate /\ a >= b

\* C1: for every Task that descends from the constructor and the mutators,
\* Task.fromJSON(task.toJSON()) has the same id, title, description,
\* priority, completed, createdAt and updatedAt, whatever id and timestamps
\* the constructor call inside fromJSON generated.
C1_RoundTrip ==
    (task # NoTask /\ trusted) =>
        /\ ToJSON(task).err = "none"
        /\ \A r \in ConstructorReads(RandomDraws) :
            FromJSON(ToJSON(task).data, r.draw, r.t1, r.t2, r.t3) = Return(task)

\* C1 witness: a constructed Task, completed after its creation at a time
\* with a millisecond part, has been serialized and loaded back.
C1_Witness ==
    /\ trusted /\ op = "roundTrip" /\ err = "none"
    /\ task.completed = True
    /\ task.updatedAt > task.createdAt
    /\ task.updatedAt % MsPerSec # 0

\* C5: updateTitle with an undefined, null, empty or whitespace-only title and
\* updatePriority with a value outside {low, medium, high} raise an Error and
\* leave every field of the Task as it was; updatedAt changes only when the
\* update succeeds.
C5_FailedUpdateChangesNothing ==
    [][/\ (op' = "updateTitle" /\ RejectedTitle(args'.title))
            => (err' = "Error" /\ task' = task)
       /\ (op' = "updatePriority" /\ ~AllowedPriority(args'.priority))
            => (err' = "Error" /\ task' = task)
       /\ (op' \in {"updateTitle", "updatePriority"} /\ err' # "none")
            => task' = task
       /\ (op' \in {"updateTitle", "updatePriority"} /\ err' = "none")
            => task'.updatedAt = now']_vars

\* C5 witness: updateTitle was called with a whitespace-only title on an
\* existing Task and raised.
C5_Witness ==
    /\ task # NoTask /\ op = "updateTitle" /\ err = "Error"
    /\ args.title = Str(<<" ", "\t">>)

\* Every Task in memory has a priority in {low, medium, high} and a title
\* that is non-empty and not whitespace-only.
TaskValid ==
    task # NoTask =>
        /\ task.priority \in {Low, Medium, High}
        /\ ~RejectedTitle(Str(task.title))

\* C6: TaskValid holds in every reachable state, whether the Task came from
\* the constructor, from fromJSON of an arbitrary record or from updates; and
\* constructing or deserializing with an invalid title or priority raises and
\* yields no Task.
C6_NoInvalidTask ==
    /\ []TaskValid
    /\ [][(/\ op' \in {"construct", "fromJSON", "roundTrip"}
           /\ \/ RejectedTitle(args'.title)
              \/ (args'.priority # Undefined /\ ~AllowedPriority(args'.priority)))
            => (err' # "none" /\ task' = task)]_vars

\* C6 witness: fromJSON was called on a record with priority "urgent" and
\* raised an Error.
C6_Witness ==
    /\ op = "fromJSON" /\ err = "Error"
    /\ args.priority = Str(Urgent)
    /\ ~RejectedTitle(args.title)

\* C7 as stated: updatedAt >= createdAt for every Task at all times.
C7_Original ==
    task # NoTask => DateGE(task.updatedAt, task.createdAt)

\* C7 amended: updatedAt >= createdAt for every Task that descends from the
\* constructor, through mutators and toJSON/fromJSON round trips (fromJSON
\* copies the timestamps of the record it is given unchecked).
C7_TrustedStamps ==
    (task # NoTask /\ trusted) => DateGE(task.updatedAt, task.createdAt)

\* C7 witness: a constructed Task was updated later and reconstructed through
\* fromJSON.
C7_Witness ==
    /\ trusted /\ op = "roundTrip" /\ err = "none"
    /\ task.updatedAt > task.createdAt

\* C8 as stated: a second markComplete (markIncomplete) in a row leaves the
\* Task in the state the first one left it in.
C8_Original ==
    [][(op' \in {"markComplete", "markIncomplete"} /\ op = op')
            => task' = task]_vars

\* C8 amended: a second markComplete (markIncomplete) in a row changes no
\* field but updatedAt, which it refreshes to the time of the call and never
\* moves back; neither operation raises, and each sets completed.
C8_IdempotentButStamp ==
    [][/\ (op' \in {"markComplete", "markIncomplete"} /\ op = op')
            => /\ [task' EXCEPT !.updatedAt = task.updatedAt] = task
               /\ task'.updatedAt = now'
               /\ task'.updatedAt >= task.updatedAt
       /\ op' \in {"markComplete", "markIncomplete"} => err' = "none"
       /\ op' = "markComplete" => task'.completed = True
       /\ op' = "markIncomplete" => task'.completed = False]_vars

\* C8 witness: markComplete was called twice in a row, the second time at a
\* later clock reading.
C8_Witness ==
    /\ op = "markComplete" /\ repeated /\ task.completed = True
    /\ task.updatedAt > task.createdAt

\* The digits of a draw that reach the id.
FirstDigits(draw) == SubSeq(draw, 1, Min(Len(draw), SuffixLen))

\* C9 as stated: no two Tasks created by separate constructor calls have the
\* same id.
C9_Original ==
    \A i, j \in 1..Len(created) :
        i # j => created[i].task.id # created[j].task.id

\* C9 amended: two Tasks created by separate constructor calls have different
\* ids whenever their Date.now() readings differ or their random draws differ
\* within the first nine base-36 digits.
C9_DistinctUnlessSameDraw ==
    \A i, j \in 1..Len(created) :
        (i # j /\ created[i].task.id = created[j].task.id) =>
            /\ created[i].tick = created[j].tick
            /\ FirstDigits(created[i].draw) = FirstDigits(created[j].draw)

\* C9 witness: two Tasks created within the same clock tick have different ids.
C9_Witness ==
    \E i, j \in 1..Len(created) :
        /\ i # j
        /\ created[i].tick = created[j].tick
        /\ created[i].task.id # created[j].task.id


----------------------------------------------------------------------------
(* Properties of the StorageManager.                                       *)

\* The instance the last call was made on.
Callee == mgr[last.who]

\* The last call met a failure: its instance's probe had failed, or a store
\* call made during it raised.
CallFailed == ~Callee.isAvailable \/ last.fault # "none"

\* C2: no StorageManager operation raises to the caller.  When the store is
\* unavailable or a store call fails, save, remove and clear return false,
\* load returns the default it was given (also for stored text that is no
\* JSON), and getStorageInfo returns a record with available = false - exactly
\* {available: false} on an instance whose probe failed.
C2_NeverRaises ==
    /\ ~last.raised
    /\ (last.op \in {"save", "remove", "clear"} /\ CallFailed) => last.res = False
    /\ (last.op = "load" /\ CallFailed) => last.res = last.arg
    /\ (/\ last.op = "load"
        /\ FullKey(Callee, last.key) \in DOMAIN store
        /\ ~ParseJSON(store[FullKey(Callee, last.key)]).ok) => last.res = last.arg
    /\ (last.op = "getStorageInfo" /\ CallFailed)
            => Get(last.res, AvailableName) = False
    /\ (last.op = "getStorageInfo" /\ ~Callee.isAvailable)
            => last.res = Obj(<<Prop(AvailableName, False)>>)
    /\ (last.op = "new" /\ last.fault # "none") => ~Callee.isAvailable

\* C2 witness: load was called on an available instance for a key whose
\* stored text is no JSON, and returned the default.
C2_Witness ==
    /\ last.op = "load" /\ Callee.isAvailable /\ last.fault = "none"
    /\ FullKey(Callee, last.key) \in DOMAIN store
    /\ ~ParseJSON(store[FullKey(Callee, last.key)]).ok
    /\ last.res = Str(<<"D">>)

\* A load of the key the call before it saved, on the same instance, with
\* the store working.
LoadAfterSave ==
    /\ last.op = "save" /\ last.res = True
    /\ last'.op = "load" /\ last'.who = last.who /\ last'.key = last.key
    /\ last'.fault = "none"

\* A load, with the store working, of a key the store does not hold.
LoadOfMissing ==
    /\ last'.op = "load" /\ last'.fault = "none"
    /\ mgr[last'.who].isAvailable
    /\ FullKey(mgr[last'.who], last'.key) \notin DOMAIN store

\* C3 as stated: whenever save(key, value) returns true, the load(key, d) that
\* follows returns value; load(key, d) of a key the store does not hold
\* returns d.
C3_Original ==
    [][/\ LoadAfterSave => last'.res = last.arg
       /\ LoadOfMissing => last'.res = last'.arg]_vars

\* The values JSON text represents exactly: null, booleans, finite numbers,
\* strings, and arrays and plain objects of such values.
RECURSIVE JsonValue(_)
JsonValue(v) ==
    CASE v.k \in {"null", "boolean", "string"} -> TRUE
      [] v.k = "number" -> AllDigits(v.s)
      [] v.k = "array" -> \A i \in 1..Len(v.a) : JsonValue(v.a[i])
      [] v.k = "object" -> \A i \in 1..Len(v.a) : JsonValue(v.a[i].a[1])
      [] OTHER -> FALSE

\* C3 amended: whenever save(key, value) returns true for a value JSON
\* represents exactly, the load(key, d) that follows returns a value equal to
\* it; load(key, d) of a key the store does not hold returns d.
C3_JsonValuesRoundTrip ==
    [][/\ (LoadAfterSave /\ JsonValue(last.arg)) => last'.res = last.arg
       /\ LoadOfMissing => last'.res = last'.arg]_vars

\* C3 witness: load returned an array holding a record, which is not the
\* default it was given.
C3_Witness ==
    /\ last.op = "load" /\ last.fault = "none"
    /\ last.res = Arr(<<Obj(<<Prop(TitleName, Str(<<"a">>))>>)>>)
    /\ last.arg = Str(<<"D">>)

\* A clear() that returned true.
Cleared == last'.op = "clear" /\ last'.res = True

\* C4 as stated: after clear() returns true the store holds no key that starts
\* with the instance's prefix, and every key that does not start with it is
\* still there with its text.
C4_Original ==
    [][Cleared =>
        /\ \A key \in DOMAIN store' :
                ~StartsWith(key, mgr[last'.who].storageKey)
        /\ \A key \in DOMAIN store :
                ~StartsWith(key, mgr[last'.who].storageKey)
                    => (key \in DOMAIN store' /\ store'[key] = store[key])]_vars

\* What clear() does establish: no key other than the empty key starts with
\* the prefix afterwards, and the keys it does not collect keep their text.
C4_NonEmptyKeys ==
    [][Cleared =>
        /\ \A key \in DOMAIN store' :
                key = <<>> \/ ~StartsWith(key, mgr[last'.who].storageKey)
        /\ \A key \in DOMAIN store :
                (key = <<>> \/ ~StartsWith(key, mgr[last'.who].storageKey))
                    => (key \in DOMAIN store' /\ store'[key] = store[key])]_vars

\* What load(key, d) returns through instance m from store st.
LoadResult(m, st, key, d) == LoadBody(m, st, key, d, "none").res

\* Neither prefix is a prefix of the other.
Unrelated(p, q) == ~StartsWith(p, q) /\ ~StartsWith(q, p)

\* A save, remove or clear through one instance leaves what every load
\* through instance q returns as it was.
Untouched(q) ==
    \A key \in SharedKeys, d \in Defaults :
        LoadResult(mgr[q], store', key, d) = LoadResult(mgr[q], store, key, d)

\* C10 as stated: for two instances with different prefixes, no save, remove
\* or clear through one changes what load returns through the other.
C10_Original ==
    [][last'.op \in {"save", "remove", "clear"} =>
        \A q \in {1, 2} \ {last'.who} : mgr[q].constructed => Untouched(q)]_vars

\* C10 amended: for two instances neither of whose prefixes is a string
\* prefix of the other, no save, remove or clear through one changes what
\* load returns through the other.
C10_UnrelatedPrefixes ==
    [][last'.op \in {"save", "remove", "clear"} =>
        \A q \in {1, 2} \ {last'.who} :
            (/\ mgr[q].constructed
             /\ Unrelated(mgr[last'.who].storageKey, mgr[q].storageKey))
                => Untouched(q)]_vars

\* C10 witness: clear() succeeded on one instance while the store holds a key
\* of another instance with an unrelated prefix.
C10_Witness ==
    /\ last.op = "clear" /\ last.res = True
    /\ \E q \in {1, 2} \ {last.who} :
        /\ mgr[q].constructed
        /\ Unrelated(Callee.storageKey, mgr[q].storageKey)
        /\ \E key \in SharedKeys : FullKey(mgr[q], key) \in DOMAIN store

====
